---- MODULE Spec2Model ----
(***************************************************************************)
(* megaui-macroquad: the adapter between the megaui immediate-mode UI and  *)
(* the macroquad host (src/src/lib.rs).                                    *)
(*                                                                         *)
(* State: the process-wide UI_CONTEXT (an Option<UiContext>), the host's   *)
(* per-frame input state that the adapter queries, and the renderer        *)
(* (quad_gl) that the adapter drives.  The megaui::Ui value held by the    *)
(* context is kept as the record of what the adapter has handed to it:     *)
(* the input events of the current UI frame, the draw commands declared in *)
(* the current UI frame, the style and the frame clock.                    *)
(*                                                                         *)
(* The two libraries are taken at their documented behaviour: megaui       *)
(* keeps a frame's draw commands until new_frame and render appends them   *)
(* in declaration order; macroquad reports press / release transitions     *)
(* for the frame in which they happen, keeps typed characters queued until *)
(* get_char_pressed pops them, and changes its input state only between    *)
(* two frames.                                                             *)
(*                                                                         *)
(* The public functions have no precondition and the model gives them      *)
(* none: the embedder may call any of them at any time, any number of      *)
(* times within one host frame, before and after draw_megaui, and after a  *)
(* draw_megaui whose panic it caught; the host may start its next frame    *)
(* whether or not draw_megaui was called.  lib.rs:213-214 asks for         *)
(* draw_megaui once per frame at the end of the frame; the code does not   *)
(* enforce it.                                                             *)
(*                                                                         *)
(* draw_window is not one step: after process_input it hands the UI to the *)
(* embedder's callback f (lib.rs:129), which declares the window's widgets *)
(* and may itself call any public function, draw_megaui and draw_window    *)
(* included.  The model has a step for the call, a step for each draw      *)
(* command f declares, and a step for the return.                          *)
(***************************************************************************)
EXTENDS Integers, Sequences, FiniteSets, TLC

VARIABLES
    flush_calls,    \* how many times draw_megaui has been called
    UI_CONTEXT,     \* <<>> (None) or <<ctx>> (Some(ctx)), lib.rs:15
    host,           \* macroquad input state read by the adapter
    quad_gl,        \* renderer state, and the calls and batches of the latest draw_megaui
    panicked,       \* the latest draw_megaui call panicked (lib.rs:233)
    constructions,  \* how many times UiContext::new has run
    frame_calls,    \* draw_window calls made since the latest draw_megaui call
    open_windows,   \* draw_window calls whose callback f is running (lib.rs:129)
    frame_idle,     \* no draw_window call was made or running since the latest
                    \* draw_megaui call (or since the start)
    hold_downs,     \* pointer-down events sent since the button last went down
    host_runs,      \* runs of the forwarder since the host's frame began
    hit_test,       \* <<>> or <<p>>: the position the latest mouse_over_ui tested, if
                    \* one was called since the host's frame began and since draw_megaui
    registered      \* <<>> or <<(id, texture)>>: the latest set_megaui_texture call

vars == <<flush_calls, UI_CONTEXT, host, quad_gl, panicked, constructions, frame_calls,
          open_windows, frame_idle, hold_downs, host_runs, hit_test, registered>>

-----------------------------------------------------------------------------
(* Bounds *)

MaxCommands == 2    \* draw commands declared in one UI frame
MaxWindows == 2     \* draw_window calls in one UI frame, and calls open at once
MaxFrames == 2      \* UI frames (draw_megaui calls) in a run
MaxChars == 2       \* typed characters pending in the host's queue
MaxHeld == 2        \* keys the host reports held at once

-----------------------------------------------------------------------------
(* Values *)

None == <<>>
Some(x) == <<x>>
IsSome(o) == o # <<>>
Unwrap(o) == o[1]

\* Texture2D values: the font atlas uploaded by UiContext::new, and the
\* embedder's textures.
FontAtlas == "font_atlas"
AppTextures == {"texA", "texB"}

\* u32 texture handles referenced by draw commands.
Handles == {1, 2}

\* Clip rectangles (megaui Rect, f32 fields) in half units: 3 is 1.5.
Rects == { [x |-> 3, y |-> -3, w |-> 8, h |-> 5] }

\* f32 -> i32 of a value given in half units: truncation toward zero.
AsI32(h) == IF h >= 0 THEN h \div 2 ELSE -((-h) \div 2)

\* How many events of kind k the event sequence evs holds.
Count(evs, k) == Cardinality({ i \in 1..Len(evs) : evs[i][1] = k })

\* Pointer positions reported by the host.
Positions == { <<50, 50>>, <<200, 200>> }

\* Characters the host's text input can queue.
Chars == {"a", "b"}

\* Key codes of the allow-list, in the order process_input tests them.
AllowList ==
    << "Up", "Down", "Right", "Left", "Home", "End", "Delete", "Backspace",
       "Tab", "Z", "Y", "C", "X", "V", "A", "Escape", "Enter" >>

AllowKeys == { AllowList[i] : i \in 1..Len(AllowList) }
ShiftKeys == {"LeftShift", "RightShift"}
ControlKeys == {"LeftControl", "RightControl"}

\* The keys of the host keyboard: the allow-list, the modifiers, and one key
\* the adapter never forwards.
Keyboard == AllowKeys \cup ShiftKeys \cup ControlKeys \cup {"Space"}

\* Scroll deltas (x, y) reported by the host.
Wheels == { <<0, 0>>, <<0, 5>>, <<2, -3>> }

-----------------------------------------------------------------------------
(* The UI context: UiContext::new and UiContext::get *)

\* megaui::Ui::new(), as far as the adapter is concerned.
UiNew ==
    [ style |-> "default",
      frame |-> 0,
      draw_commands |-> <<>>,     \* declared since the latest new_frame
      input |-> <<>>,             \* events received since the latest new_frame
      mouse_position |-> None ]   \* position of the latest mouse_move

UiContextNew ==
    [ ui |-> UiNew,
      ui_draw_list |-> <<>>,
      font_texture |-> FontAtlas,
      megaui_textures |-> << >>,
      input_processed_this_frame |-> FALSE ]

\* Mutant of Get: every call constructs a context.
GetFresh(uc) == UiContextNew

\* UiContext::get: the context, constructed when UI_CONTEXT is None.
Get(uc) == IF uc = None THEN UiContextNew ELSE Unwrap(uc)

\* How many constructions a call to UiContext::get adds.
Constructed(uc) == IF uc = None THEN 1 ELSE 0

-----------------------------------------------------------------------------
(* The host queries of macroquad, on the host state h *)

is_key_down(h, k) == k \in h.keys_down
is_key_pressed(h, k) == k \in h.keys_pressed

-----------------------------------------------------------------------------
(* process_input, lib.rs:146-211 *)

\* Mutant of ButtonEvents: the pointer-down follows the button's level, not
\* its press transition.
ButtonEventsByLevel(h) ==
    (IF h.mouse_down THEN << <<"mouse_down", h.mouse_position>> >> ELSE <<>>)
    \o (IF h.mouse_released THEN << <<"mouse_up", h.mouse_position>> >> ELSE <<>>)

\* lib.rs:158-163: the button events, from the press / release transitions.
ButtonEvents(h) ==
    (IF h.mouse_pressed THEN << <<"mouse_down", h.mouse_position>> >> ELSE <<>>)
    \o (IF h.mouse_released THEN << <<"mouse_up", h.mouse_position>> >> ELSE <<>>)

\* lib.rs:165-166
ShiftHeld(h) == is_key_down(h, "LeftShift") \/ is_key_down(h, "RightShift")
CtrlHeld(h) == is_key_down(h, "LeftControl") \/ is_key_down(h, "RightControl")

\* lib.rs:168-172: every queued character is popped; each is forwarded
\* unless ctrl is held.
CharEvents(h) ==
    IF CtrlHeld(h) = FALSE
    THEN [ i \in 1..Len(h.chars) |-> <<"char_event", h.chars[i], FALSE, FALSE>> ]
    ELSE <<>>

\* Mutant of Process: a key-down is sent for the press only, not while held.
ProcessPressedOnly(h, code) ==
    IF is_key_pressed(h, code)
    THEN << <<"key_down", code, ShiftHeld(h), CtrlHeld(h)>> >>
    ELSE <<>>

\* lib.rs:174-180: the process! macro for one key code.
Process(h, code) ==
    IF is_key_pressed(h, code) \/ is_key_down(h, code)
    THEN << <<"key_down", code, ShiftHeld(h), CtrlHeld(h)>> >>
    ELSE <<>>

\* lib.rs:182-198: process! for the keys of the allow-list from the i-th on.
RECURSIVE ProcessFrom(_, _)
ProcessFrom(h, i) ==
    IF i > Len(AllowList) THEN <<>>
    ELSE Process(h, AllowList[i]) \o ProcessFrom(h, i + 1)

KeyEvents(h) == ProcessFrom(h, 1)

\* Mutant of ControlEvent: the key-down is sent while a control key is held,
\* not for a press that is over within the frame.
ControlEventHeldOnly(h) ==
    IF is_key_down(h, "LeftControl") \/ is_key_down(h, "RightControl")
    THEN << <<"key_down", "Control", ShiftHeld(h), CtrlHeld(h)>> >>
    ELSE <<>>

\* lib.rs:200-206
ControlEvent(h) ==
    IF \/ is_key_down(h, "LeftControl")
       \/ is_key_down(h, "RightControl")
       \/ is_key_pressed(h, "LeftControl")
       \/ is_key_pressed(h, "RightControl")
    THEN << <<"key_down", "Control", ShiftHeld(h), CtrlHeld(h)>> >>
    ELSE <<>>

\* Mutant of WheelEvent: the delta is passed on as the host reports it.
WheelEventAsReported(h) == << <<"mouse_wheel", h.mouse_wheel[1], h.mouse_wheel[2]>> >>

\* lib.rs:207-208
WheelEvent(h) == << <<"mouse_wheel", h.mouse_wheel[1], -h.mouse_wheel[2]>> >>

\* Mutant of ForwardedEvents: the key-downs are sent before the characters.
ForwardedEventsKeysFirst(h) ==
    << <<"mouse_move", h.mouse_position>> >>
    \o ButtonEvents(h)
    \o KeyEvents(h)
    \o CharEvents(h)
    \o ControlEvent(h)
    \o WheelEvent(h)

\* lib.rs:154-208: the events of one run of the forwarder, in the order sent.
ForwardedEvents(h) ==
    << <<"mouse_move", h.mouse_position>> >>
    \o ButtonEvents(h)
    \o CharEvents(h)
    \o KeyEvents(h)
    \o ControlEvent(h)
    \o WheelEvent(h)

\* Mutant of DrainedChars: with a control key held the loop does not run, so
\* the characters stay queued.
CharsKeptUnderCtrl(h) == IF CtrlHeld(h) THEN h.chars ELSE <<>>

\* lib.rs:168: the host's queue once get_char_pressed has returned None.
DrainedChars(h) == <<>>

\* Mutant of AlreadyProcessed: the guard never holds.
NeverProcessed(ctx) == FALSE

\* lib.rs:151-153: the guard of process_input.
AlreadyProcessed(ctx) == ctx.input_processed_this_frame

\* process_input on context ctx and host h: the context and the host after it.
process_input(ctx, h) ==
    IF AlreadyProcessed(ctx)
    THEN [ctx |-> ctx, host |-> h]
    ELSE [ctx |-> [ctx EXCEPT !.ui.input = @ \o ForwardedEvents(h),
                              !.ui.mouse_position = Some(h.mouse_position),
                              !.input_processed_this_frame = TRUE],
          host |-> [h EXCEPT !.chars = DrainedChars(h)]]

-----------------------------------------------------------------------------
(* What the adapter asks of megaui::Ui *)

\* What a widget of a window's callback declares: a draw command's optional
\* texture handle and its optional clip rectangle.
CommandKinds ==
    [ texture : {None} \cup { Some(t) : t \in Handles },
      clipping_zone : {None} \cup { Some(r) : r \in Rects } ]

\* A widget drawn by f on the Ui that Window::ui hands it, lib.rs:129: its
\* draw command is added to those of the current UI frame. The command's
\* buffers are identified by the UI frame and the command's place in it.
UiCommand(ui, kind) ==
    [ui EXCEPT !.draw_commands = Append(@,
        [ vertices |-> <<ui.frame, Len(ui.draw_commands) + 1>>,
          indices |-> <<ui.frame, Len(ui.draw_commands) + 1>>,
          texture |-> kind.texture,
          clipping_zone |-> kind.clipping_zone ])]

\* ui.render(&mut list), lib.rs:224: the UI appends its frame's draw commands.
UiRender(ui, list) == list \o ui.draw_commands

\* ui.new_frame(dt), lib.rs:249: the UI starts its next frame.
UiNewFrame(ui) ==
    [ui EXCEPT !.frame = @ + 1, !.draw_commands = <<>>, !.input = <<>>]

-----------------------------------------------------------------------------
(* The renderer calls of draw_megaui *)

GlTexture(gl, t) ==
    [gl EXCEPT !.texture = t, !.calls = Append(@, <<"texture", t>>)]

GlScissor(gl, clip) ==
    [gl EXCEPT !.scissor = clip, !.calls = Append(@, <<"scissor", clip>>)]

GlDrawMode(gl, mode) ==
    [gl EXCEPT !.draw_mode = mode, !.calls = Append(@, <<"draw_mode", mode>>)]

\* quad_gl.geometry: a batch drawn with the renderer's current state.
GlGeometry(gl, vertices, indices) ==
    [gl EXCEPT !.calls = Append(@, <<"geometry", vertices, indices>>),
               !.draw_calls = Append(@,
                    [ vertices |-> vertices, indices |-> indices,
                      texture |-> gl.texture, clip |-> gl.scissor,
                      draw_mode |-> gl.draw_mode ])]

\* lib.rs:238-240: the clip rectangle as the (i32, i32, i32, i32) scissor.
ScissorOf(zone) ==
    IF IsSome(zone)
    THEN Some(<< AsI32(Unwrap(zone).x), AsI32(Unwrap(zone).y),
                 AsI32(Unwrap(zone).w), AsI32(Unwrap(zone).h) >>)
    ELSE None

\* Mutant of CommandTexture: a handle with no entry falls back to the font
\* atlas instead of failing.
CommandTextureOrFont(ctx, cmd) ==
    IF IsSome(cmd.texture) /\ Unwrap(cmd.texture) \in DOMAIN ctx.megaui_textures
    THEN [ok |-> TRUE, texture |-> Some(ctx.megaui_textures[Unwrap(cmd.texture)])]
    ELSE [ok |-> TRUE, texture |-> Some(ctx.font_texture)]

\* lib.rs:232-236: the texture bound for a draw command; ok is FALSE when
\* megaui_textures[&texture] has no entry (the index panics).
CommandTexture(ctx, cmd) ==
    IF IsSome(cmd.texture)
    THEN IF Unwrap(cmd.texture) \in DOMAIN ctx.megaui_textures
         THEN [ok |-> TRUE, texture |-> Some(ctx.megaui_textures[Unwrap(cmd.texture)])]
         ELSE [ok |-> FALSE, texture |-> None]
    ELSE [ok |-> TRUE, texture |-> Some(ctx.font_texture)]

\* Mutant of ReplayCommand: a command without a texture binds nothing, so
\* the previous command's texture stays bound.
ReplayCommandKeepsTexture(gl, ctx, cmd) ==
    LET bound == IF IsSome(cmd.texture)
                 THEN GlTexture(gl, CommandTexture(ctx, cmd).texture)
                 ELSE gl
        clipped == GlScissor(bound, ScissorOf(cmd.clipping_zone))
        moded == GlDrawMode(clipped, "Triangles")
    IN GlGeometry(moded, cmd.vertices, cmd.indices)

\* Mutant of ReplayCommand: the scissor is set only for a command that has a
\* clip rectangle, so an earlier command's clip stays active.
ReplayCommandKeepsClip(gl, ctx, cmd) ==
    LET bound == GlTexture(gl, CommandTexture(ctx, cmd).texture)
        clipped == IF IsSome(cmd.clipping_zone)
                   THEN GlScissor(bound, ScissorOf(cmd.clipping_zone))
                   ELSE bound
        moded == GlDrawMode(clipped, "Triangles")
    IN GlGeometry(moded, cmd.vertices, cmd.indices)

\* lib.rs:232-243: the body of the replay loop for one draw command.
ReplayCommand(gl, ctx, cmd) ==
    LET bound == GlTexture(gl, CommandTexture(ctx, cmd).texture)
        clipped == GlScissor(bound, ScissorOf(cmd.clipping_zone))
        moded == GlDrawMode(clipped, "Triangles")
    IN GlGeometry(moded, cmd.vertices, cmd.indices)

\* Mutant of Replay: the loop ends one command early.
RECURSIVE ReplaySkipsLast(_, _, _, _)
ReplaySkipsLast(gl, ctx, list, i) ==
    IF i >= Len(list) THEN [gl |-> gl, ok |-> TRUE]
    ELSE IF ~CommandTexture(ctx, list[i]).ok THEN [gl |-> gl, ok |-> FALSE]
    ELSE ReplaySkipsLast(ReplayCommand(gl, ctx, list[i]), ctx, list, i + 1)

\* lib.rs:231-244: the loop over the draw list from its i-th command on; it
\* stops at a command whose texture lookup panics.
RECURSIVE Replay(_, _, _, _)
Replay(gl, ctx, list, i) ==
    IF i > Len(list) THEN [gl |-> gl, ok |-> TRUE]
    ELSE IF ~CommandTexture(ctx, list[i]).ok THEN [gl |-> gl, ok |-> FALSE]
    ELSE Replay(ReplayCommand(gl, ctx, list[i]), ctx, list, i + 1)

\* Mutant of ClearedDrawList: the list is cut to its first command.
TruncatedDrawList(ctx) ==
    IF ctx.ui_draw_list = <<>> THEN <<>> ELSE << ctx.ui_draw_list[1] >>

\* Mutant of ClearedDrawList: the list is not cleared.
UnclearedDrawList(ctx) == ctx.ui_draw_list

\* lib.rs:222: the draw list before ui.render fills it.
ClearedDrawList(ctx) == <<>>

\* Mutant of Unbind: the last texture stays bound.
UnbindSkipped(gl) == gl

\* lib.rs:245: the texture is unbound after the loop.
Unbind(gl) == GlTexture(gl, None)

-----------------------------------------------------------------------------
(* The public operations.  Each starts with UiContext::get and has no       *)
(* precondition.                                                            *)

\* set_ui_style, lib.rs:94-98
set_ui_style(style) ==
    /\ UI_CONTEXT' = Some([Get(UI_CONTEXT) EXCEPT !.ui.style = style])
    /\ constructions' = constructions + Constructed(UI_CONTEXT)
    /\ UNCHANGED <<flush_calls, host, quad_gl, panicked, frame_calls, open_windows, frame_idle,
                   hold_downs, host_runs, hit_test, registered>>

\* Mutant of Insert: an entry that exists is kept.
InsertIfAbsent(map, id, texture) ==
    [ k \in DOMAIN map \cup {id} |-> IF k \in DOMAIN map THEN map[k] ELSE texture ]

\* HashMap::insert, lib.rs:103
Insert(map, id, texture) ==
    [ k \in DOMAIN map \cup {id} |-> IF k = id THEN texture ELSE map[k] ]

\* set_megaui_texture, lib.rs:100-104
set_megaui_texture(id, texture) ==
    /\ UI_CONTEXT' = Some([Get(UI_CONTEXT) EXCEPT
                            !.megaui_textures = Insert(@, id, texture)])
    /\ registered' = Some(<<id, texture>>)
    /\ constructions' = constructions + Constructed(UI_CONTEXT)
    /\ UNCHANGED <<flush_calls, host, quad_gl, panicked, frame_calls, open_windows, frame_idle,
                   hold_downs, host_runs, hit_test>>

\* draw_window, lib.rs:106-129, up to the point where Window::ui calls f:
\* process_input, then the callback is entered.
draw_window ==
    /\ frame_calls < MaxWindows /\ open_windows < MaxWindows
    /\ LET forwarded == process_input(Get(UI_CONTEXT), host)
       IN /\ UI_CONTEXT' = Some(forwarded.ctx)
          /\ host' = forwarded.host
          /\ hold_downs' = hold_downs + Count(forwarded.ctx.ui.input, "mouse_down")
                                      - Count(Get(UI_CONTEXT).ui.input, "mouse_down")
          /\ host_runs' = host_runs + Count(forwarded.ctx.ui.input, "mouse_move")
                                    - Count(Get(UI_CONTEXT).ui.input, "mouse_move")
    /\ constructions' = constructions + Constructed(UI_CONTEXT)
    /\ frame_calls' = frame_calls + 1
    /\ open_windows' = open_windows + 1
    /\ frame_idle' = FALSE
    /\ UNCHANGED <<flush_calls, quad_gl, panicked, hit_test, registered>>

\* The callback f of a draw_window call in progress draws a widget,
\* lib.rs:129. f runs on the context's Ui as it is at that moment, so after
\* a draw_megaui that f itself called the command belongs to the new UI
\* frame.
f_draws(kind) ==
    /\ open_windows >= 1
    /\ UI_CONTEXT # None
    /\ Len(Unwrap(UI_CONTEXT).ui.draw_commands) < MaxCommands
    /\ UI_CONTEXT' = Some([Unwrap(UI_CONTEXT) EXCEPT !.ui = UiCommand(@, kind)])
    /\ UNCHANGED <<flush_calls, host, quad_gl, panicked, constructions, frame_calls,
                   open_windows, frame_idle, hold_downs, host_runs, hit_test, registered>>

\* f returns, and Window::ui and draw_window with it, lib.rs:129-130.
draw_window_return ==
    /\ open_windows >= 1
    /\ open_windows' = open_windows - 1
    /\ UNCHANGED <<flush_calls, UI_CONTEXT, host, quad_gl, panicked, constructions,
                   frame_calls, frame_idle, hold_downs, host_runs, hit_test, registered>>

\* Mutant of TestedPosition: the position last forwarded to the UI is tested.
TestedForwardedPosition(ctx, h) ==
    IF IsSome(ctx.ui.mouse_position) THEN Unwrap(ctx.ui.mouse_position)
    ELSE h.mouse_position

\* lib.rs:134-138: the position mouse_over_ui hands to ui.is_mouse_over.
TestedPosition(ctx, h) == h.mouse_position

\* Mutant of mouse_over_ui: the query runs the forwarder first.
mouse_over_ui_forwarding ==
    /\ UI_CONTEXT' = Some(process_input(Get(UI_CONTEXT), host).ctx)
    /\ host' = process_input(Get(UI_CONTEXT), host).host
    /\ hit_test' = Some(TestedPosition(Get(UI_CONTEXT), host))
    /\ constructions' = constructions + Constructed(UI_CONTEXT)
    /\ UNCHANGED <<flush_calls, quad_gl, panicked, frame_calls, open_windows, frame_idle,
                   hold_downs, host_runs, registered>>

\* mouse_over_ui, lib.rs:133-139
mouse_over_ui ==
    /\ UI_CONTEXT' = Some(Get(UI_CONTEXT))
    /\ hit_test' = Some(TestedPosition(Get(UI_CONTEXT), host))
    /\ constructions' = constructions + Constructed(UI_CONTEXT)
    /\ UNCHANGED <<flush_calls, host, quad_gl, panicked, frame_calls, open_windows, frame_idle,
                   hold_downs, host_runs, registered>>

\* Mutant of mouse_captured: the query runs the forwarder first.
mouse_captured_forwarding ==
    /\ UI_CONTEXT' = Some(process_input(Get(UI_CONTEXT), host).ctx)
    /\ host' = process_input(Get(UI_CONTEXT), host).host
    /\ constructions' = constructions + Constructed(UI_CONTEXT)
    /\ UNCHANGED <<flush_calls, quad_gl, panicked, frame_calls, open_windows, frame_idle,
                   hold_downs, host_runs, hit_test, registered>>

\* mouse_captured, lib.rs:142-144
mouse_captured ==
    /\ UI_CONTEXT' = Some(Get(UI_CONTEXT))
    /\ constructions' = constructions + Constructed(UI_CONTEXT)
    /\ UNCHANGED <<flush_calls, host, quad_gl, panicked, frame_calls, open_windows, frame_idle,
                   hold_downs, host_runs, hit_test, registered>>

\* Mutant of FlagAfterFlush: the flag is not cleared.
FlagKept(flag) == flag

\* lib.rs:218: the flag as draw_megaui leaves it.
FlagAfterFlush(flag) == FALSE

\* Mutant of draw_megaui: the flush forwards the host's input first when no
\* draw_window of the frame has.
draw_megaui_forwarding ==
    /\ flush_calls < MaxFrames
    /\ LET forwarded == process_input(Get(UI_CONTEXT), host)
           ctx0 == [forwarded.ctx EXCEPT
                      !.input_processed_this_frame = FlagAfterFlush(@)]
           rendered == UiRender(ctx0.ui, ClearedDrawList(ctx0))
           ctx1 == [ctx0 EXCEPT !.ui_draw_list = <<>>]
           gl0 == GlTexture([quad_gl EXCEPT !.calls = <<>>, !.draw_calls = <<>>,
                                            !.previous_pass = Len(quad_gl.draw_calls)],
                            Some(ctx1.font_texture))
           loop == Replay(gl0, ctx1, rendered, 1)
       IN /\ IF loop.ok
             THEN /\ quad_gl' = Unbind(loop.gl)
                  /\ UI_CONTEXT' = Some([ctx1 EXCEPT !.ui_draw_list = rendered,
                                                     !.ui = UiNewFrame(@)])
                  /\ panicked' = FALSE
                  /\ open_windows' = open_windows
             ELSE /\ quad_gl' = loop.gl
                  /\ UI_CONTEXT' = Some(ctx1)
                  /\ panicked' = TRUE
                  /\ open_windows' \in 0..open_windows
          /\ host' = forwarded.host
          /\ hold_downs' = hold_downs + Count(forwarded.ctx.ui.input, "mouse_down")
                                      - Count(Get(UI_CONTEXT).ui.input, "mouse_down")
          /\ host_runs' = host_runs + Count(forwarded.ctx.ui.input, "mouse_move")
                                    - Count(Get(UI_CONTEXT).ui.input, "mouse_move")
    /\ constructions' = constructions + Constructed(UI_CONTEXT)
    /\ flush_calls' = flush_calls + 1
    /\ frame_calls' = 0
    /\ frame_idle' = (open_windows' = 0)
    /\ hit_test' = None
    /\ UNCHANGED registered

\* draw_megaui, lib.rs:215-250
draw_megaui ==
    /\ flush_calls < MaxFrames
    /\ LET ctx0 == [Get(UI_CONTEXT) EXCEPT
                      !.input_processed_this_frame = FlagAfterFlush(@)]
           rendered == UiRender(ctx0.ui, ClearedDrawList(ctx0))
           \* lib.rs:225-227: the rendered list is swapped out of the context
           ctx1 == [ctx0 EXCEPT !.ui_draw_list = <<>>]
           gl0 == GlTexture([quad_gl EXCEPT !.calls = <<>>, !.draw_calls = <<>>,
                                            !.previous_pass = Len(quad_gl.draw_calls)],
                            Some(ctx1.font_texture))
           loop == Replay(gl0, ctx1, rendered, 1)
       IN IF loop.ok
          THEN /\ quad_gl' = Unbind(loop.gl)
               \* lib.rs:247-249: swapped back, then the UI's next frame
               /\ UI_CONTEXT' = Some([ctx1 EXCEPT !.ui_draw_list = rendered,
                                                  !.ui = UiNewFrame(@)])
               /\ panicked' = FALSE
               /\ open_windows' = open_windows
          \* the panic unwinds: the list swapped out is dropped with the call,
          \* nothing after the loop runs; a panic raised within a callback
          \* unwinds the draw_window calls up to where the embedder catches it
          ELSE /\ quad_gl' = loop.gl
               /\ UI_CONTEXT' = Some(ctx1)
               /\ panicked' = TRUE
               /\ open_windows' \in 0..open_windows
    /\ constructions' = constructions + Constructed(UI_CONTEXT)
    /\ flush_calls' = flush_calls + 1
    /\ frame_calls' = 0
    /\ frame_idle' = (open_windows' = 0)
    /\ hit_test' = None
    /\ UNCHANGED <<host, hold_downs, host_runs, registered>>

-----------------------------------------------------------------------------
(* The host: macroquad's input state between two frames of the embedder *)

HostInit ==
    [ mouse_position |-> <<0, 0>>,
      mouse_down |-> FALSE,       \* the primary button is held
      mouse_pressed |-> FALSE,    \* it went down during this frame's events
      mouse_released |-> FALSE,   \* it went up during this frame's events
      keys_down |-> {},
      keys_pressed |-> {},
      chars |-> <<>>,             \* the queue get_char_pressed pops
      mouse_wheel |-> <<0, 0>> ]

\* What the primary button can do between two frames, given whether it is
\* held: stay, go down, go up, or a full click.
ButtonInputs(held) ==
    IF held
    THEN { [down |-> TRUE, pressed |-> FALSE, released |-> FALSE],
           [down |-> FALSE, pressed |-> FALSE, released |-> TRUE] }
    ELSE { [down |-> FALSE, pressed |-> FALSE, released |-> FALSE],
           [down |-> TRUE, pressed |-> TRUE, released |-> FALSE],
           [down |-> FALSE, pressed |-> TRUE, released |-> TRUE] }

\* Every state of the primary button, and the button left alone.
ButtonStates == ButtonInputs(TRUE) \cup ButtonInputs(FALSE)
ButtonIdle == { [down |-> FALSE, pressed |-> FALSE, released |-> FALSE] }

\* The sets of keys held at once, and a key struck and let go within a frame.
RECURSIVE SetsUpTo(_, _)
SetsUpTo(keyboard, n) ==
    IF n = 0 THEN { {} }
    ELSE LET smaller == SetsUpTo(keyboard, n - 1)
         IN smaller \cup { ks \cup {k} : ks \in smaller, k \in keyboard }

HeldSets(keyboard) == SetsUpTo(keyboard, MaxHeld)
Taps(keyboard, held) == { {} } \cup { {k} : k \in keyboard \ held }

\* The host's frame boundary: the edge state of the previous frame is
\* dropped, then the events that arrived set the state the next frame's
\* queries read. I names the inputs the host may deliver.
HostNextFrame(I) ==
    /\ \E pos \in I.positions, button \in ButtonInputs(host.mouse_down) \cap I.buttons,
          held \in HeldSets(I.keyboard), typed \in I.texts, wheel \in I.wheels :
         /\ Len(host.chars) + Len(typed) <= MaxChars
         /\ \E tap \in Taps(I.keyboard, held) :
              host' = [ mouse_position |-> pos,
                        mouse_down |-> button.down,
                        mouse_pressed |-> button.pressed,
                        mouse_released |-> button.released,
                        keys_down |-> held,
                        keys_pressed |-> (held \ host.keys_down) \cup tap,
                        chars |-> host.chars \o typed,
                        mouse_wheel |-> wheel ]
         /\ hold_downs' = IF button.pressed \/ ~button.down THEN 0 ELSE hold_downs
    /\ host_runs' = 0
    /\ hit_test' = None
    /\ UNCHANGED <<flush_calls, UI_CONTEXT, quad_gl, panicked, constructions, frame_calls,
                   open_windows, frame_idle, registered>>

-----------------------------------------------------------------------------
(* Specifications *)

Init ==
    /\ flush_calls = 0
    /\ UI_CONTEXT = None
    /\ host = HostInit
    /\ quad_gl = [ texture |-> None, scissor |-> None, draw_mode |-> "Triangles",
                   calls |-> <<>>, draw_calls |-> <<>>, previous_pass |-> 0 ]
    /\ panicked = FALSE
    /\ constructions = 0
    /\ frame_calls = 0
    /\ open_windows = 0
    /\ frame_idle = TRUE
    /\ hold_downs = 0
    /\ host_runs = 0
    /\ hit_test = None
    /\ registered = None

\* The inputs of the program with all its operations: the pointer's position
\* and the wheel on the host's side, and what the embedder passes. The
\* widgets drawn use texture handle 1, so that a flush returns when the
\* handle is registered and panics (lib.rs:233) when it is not.
ProgramInputs ==
    [ positions |-> Positions,
      buttons |-> ButtonIdle,
      keyboard |-> {},
      texts |-> { <<>> },
      wheels |-> { <<0, 5>> },
      styles |-> {"custom"},
      handles |-> {1},
      textures |-> {"texA"},
      commands |-> { [texture |-> Some(1), clipping_zone |-> None] } ]

Step(I) ==
    \/ \E style \in I.styles : set_ui_style(style)
    \/ \E id \in I.handles, texture \in I.textures : set_megaui_texture(id, texture)
    \/ draw_window
    \/ \E kind \in I.commands : f_draws(kind)
    \/ draw_window_return
    \/ mouse_over_ui
    \/ mouse_captured
    \/ draw_megaui
    \/ HostNextFrame(I)

Next == Step(ProgramInputs)

Spec == Init /\ [][Next]_vars

\* Windows without widgets, flushes and host frames in any order, on a host
\* with the pointer, its button, a key and the wheel.
FrameInputs ==
    [ positions |-> Positions,
      buttons |-> ButtonStates,
      keyboard |-> {"Up"},
      texts |-> { <<>> },
      wheels |-> { <<0, 5>> } ]

FrameNext ==
    \/ draw_window
    \/ draw_window_return
    \/ draw_megaui
    \/ HostNextFrame(FrameInputs)

FrameSpec == Init /\ [][FrameNext]_vars

\* The process up to and including its first draw_megaui, with every kind of
\* draw command, two handles and two textures: the registrations and window
\* declarations in any order.
FlushNext ==
    /\ flush_calls = 0
    /\ \/ \E id \in Handles, texture \in AppTextures : set_megaui_texture(id, texture)
       \/ draw_window
       \/ \E kind \in CommandKinds : f_draws(kind)
       \/ draw_window_return
       \/ draw_megaui

FlushSpec == Init /\ [][FlushNext]_vars

\* The forwarder on the host states it can meet: any keys held up to
\* MaxHeld with any one key struck, and the pointer, wheel and text inputs.
ForwarderTexts == { <<>>, <<"b">>, <<"a", "b">> }
Strokes == { {} } \cup { {k} : k \in Keyboard }

KeyboardHosts ==
    { [ mouse_position |-> <<50, 50>>,
        mouse_down |-> FALSE, mouse_pressed |-> TRUE, mouse_released |-> TRUE,
        keys_down |-> held, keys_pressed |-> struck,
        chars |-> typed, mouse_wheel |-> <<2, -3>> ] :
      held \in HeldSets(Keyboard), struck \in Strokes, typed \in ForwarderTexts }

PointerHosts ==
    { [ mouse_position |-> pos,
        mouse_down |-> button.down, mouse_pressed |-> button.pressed,
        mouse_released |-> button.released,
        keys_down |-> held, keys_pressed |-> {},
        chars |-> typed, mouse_wheel |-> wheel ] :
      pos \in Positions, button \in ButtonStates, wheel \in Wheels,
      held \in { {}, {"RightControl"} }, typed \in ForwarderTexts }

ForwarderInit ==
    /\ flush_calls = 0
    /\ UI_CONTEXT = None
    /\ host \in KeyboardHosts \cup PointerHosts
    /\ quad_gl = [ texture |-> None, scissor |-> None, draw_mode |-> "Triangles",
                   calls |-> <<>>, draw_calls |-> <<>>, previous_pass |-> 0 ]
    /\ panicked = FALSE
    /\ constructions = 0
    /\ frame_calls = 0
    /\ open_windows = 0
    /\ frame_idle = TRUE
    /\ hold_downs = 0
    /\ host_runs = 0
    /\ hit_test = None
    /\ registered = None

ForwarderNext ==
    /\ flush_calls = 0
    /\ \/ draw_window
       \/ draw_window_return
       \/ draw_megaui

ForwarderSpec == ForwarderInit /\ [][ForwarderNext]_vars

-----------------------------------------------------------------------------
(* State functions used by the properties *)

Ctx == Get(UI_CONTEXT)
Flag == Ctx.input_processed_this_frame
Input == Ctx.ui.input

\* The step is a draw_megaui call / a draw_window call, up to the entry of
\* its callback / a widget drawn by a callback.
FlushStep == flush_calls' = flush_calls + 1
WindowStep == frame_calls' = frame_calls + 1
WidgetStep == Len(Ctx'.ui.draw_commands) = Len(Ctx.ui.draw_commands) + 1

-----------------------------------------------------------------------------
(* Properties *)

\* The events a step added to the UI's input.
Added == SubSeq(Input', Len(Input) + 1, Len(Input'))

\* C1: of the N >= 1 draw_window calls made between two draw_megaui calls
\* (or before the first), the first runs the forwarder, which sends one
\* mouse_move, one mouse_wheel, a mouse_down and a mouse_up for each
\* transition reported, the queued characters and at most one key_down per
\* key; each later call sends nothing, whatever the host reports, and leaves
\* the host's character queue alone.
C1_ForwardedOncePerFrame ==
    [][ /\ frame_calls' = 0 => ~Flag'
        /\ frame_calls' >= 1 => Flag'
        /\ WindowStep =>
              IF frame_calls = 0
              THEN /\ Count(Added, "mouse_move") = 1
                   /\ Count(Added, "mouse_wheel") = 1
                   /\ Count(Added, "mouse_down") = (IF host.mouse_pressed THEN 1 ELSE 0)
                   /\ Count(Added, "mouse_up") = (IF host.mouse_released THEN 1 ELSE 0)
                   /\ Count(Added, "char_event") =
                         (IF host.keys_down \cap ControlKeys = {}
                          THEN Len(host.chars) ELSE 0)
                   /\ \A i, j \in 1..Len(Added) :
                         (i # j /\ Added[i][1] = "key_down" /\ Added[j][1] = "key_down")
                             => Added[i][2] # Added[j][2]
                   /\ Input' = Input \o Added
              ELSE /\ Input' = Input
                   /\ Ctx'.ui.mouse_position = Ctx.ui.mouse_position
                   /\ host' = host ]_vars

\* C1 witness: two draw_window calls in a frame whose forwarded events are a
\* pointer-down, a typed character and a key-down among them, each once.
C1_Witness ==
    /\ frame_calls = 2
    /\ Count(Input, "mouse_move") = 1 /\ Count(Input, "mouse_wheel") = 1
    /\ Count(Input, "mouse_down") = 1
    /\ Count(Input, "char_event") >= 1
    /\ Count(Input, "key_down") >= 1

\* C2: draw_megaui leaves the flag cleared (also when the flush fails, and
\* when it is called from a window's callback), no other operation and no
\* return of draw_window clears it, and the first draw_window of every
\* frame, hence the first one after any draw_megaui, forwards input and sets
\* it.
C2_FlagClearedByFlushOnly ==
    [][ /\ FlushStep => ~Flag'
        /\ (Flag /\ ~Flag') => FlushStep
        /\ frame_calls' = 0 <=> ~Flag'
        /\ (WindowStep /\ frame_calls = 0) =>
              /\ Flag'
              /\ Count(Added, "mouse_move") = 1
              /\ Ctx'.ui.mouse_position = Some(host.mouse_position) ]_vars

\* C2 witness: a frame after a draw_megaui in which input was forwarded again.
C2_Witness ==
    flush_calls >= 1 /\ Ctx.ui.frame >= 1 /\ Flag /\ Count(Input, "mouse_move") = 1

\* The geometry submissions among the renderer calls, in call order.
Geometry(calls) == SelectSeq(calls, LAMBDA c : c[1] = "geometry")

\* The draw commands the UI holds for the frame, which ui.render emits.
Emitted == Ctx.ui.draw_commands

\* C3: a draw_megaui that completes submits the geometry of exactly the draw
\* commands its ui.render call emitted, one submission per command, in the
\* order emitted.
C3_ReplayInEmittedOrder ==
    [][ (FlushStep /\ ~panicked') =>
            Geometry(quad_gl'.calls) =
                [ i \in 1..Len(Emitted) |->
                    <<"geometry", Emitted[i].vertices, Emitted[i].indices>> ] ]_vars

\* C3 witness: a completed flush that submitted two commands.
C3_Witness ==
    flush_calls = 1 /\ ~panicked /\ Len(Geometry(quad_gl.calls)) = 2

\* C4: every batch submitted by draw_megaui is drawn with the texture
\* registered under its command's handle, or with the font atlas when the
\* command has no handle, whatever the commands before it bound.
C4_TexturePerCommand ==
    [][ FlushStep =>
            \A i \in 1..Len(quad_gl'.draw_calls) :
                /\ i <= Len(Emitted)
                /\ IF IsSome(Emitted[i].texture)
                   THEN /\ Unwrap(Emitted[i].texture) \in DOMAIN Ctx.megaui_textures
                        /\ quad_gl'.draw_calls[i].texture =
                              Some(Ctx.megaui_textures[Unwrap(Emitted[i].texture)])
                   ELSE quad_gl'.draw_calls[i].texture = Some(FontAtlas) ]_vars

\* C4 witness: a textured command followed by one without a texture, each
\* drawn with its own texture.
C4_Witness ==
    /\ flush_calls = 1 /\ ~panicked /\ Len(quad_gl.draw_calls) = 2
    /\ quad_gl.draw_calls[1].texture = Some("texB")
    /\ quad_gl.draw_calls[2].texture = Some(FontAtlas)

\* The places of the emitted commands whose handle has no registry entry.
Unregistered ==
    { i \in 1..Len(Emitted) :
        /\ IsSome(Emitted[i].texture)
        /\ Unwrap(Emitted[i].texture) \notin DOMAIN Ctx.megaui_textures }

MinOf(S) == CHOOSE x \in S : \A y \in S : x <= y

\* C5: a flush whose draw list references an unregistered handle fails at the
\* first such command: the commands before it are submitted, that command
\* and the later ones are not, and nothing of the flush runs after the
\* failure (no unbind, no swap back, no new UI frame); a flush with no such
\* command does not fail.
C5_UnregisteredHandleIsFatal ==
    [][ FlushStep =>
             IF Unregistered = {}
             THEN ~panicked' /\ Len(quad_gl'.draw_calls) = Len(Emitted)
             ELSE /\ panicked'
                  /\ Len(quad_gl'.draw_calls) = MinOf(Unregistered) - 1
                  /\ \A i \in 1..Len(quad_gl'.draw_calls) :
                        quad_gl'.draw_calls[i].vertices = Emitted[i].vertices
                  /\ quad_gl'.calls[Len(quad_gl'.calls)][1] # "texture"
                     \/ Len(quad_gl'.calls) = 1
                  /\ Ctx'.ui.frame = Ctx.ui.frame
                  /\ Ctx'.ui_draw_list = <<>> ]_vars

\* C5 witness: the flush failed at its second command, after submitting the
\* first.
C5_Witness ==
    flush_calls = 1 /\ panicked /\ Len(quad_gl.draw_calls) = 1

\* C7: after a draw_megaui that completes no texture is bound, and the unbind
\* is the last renderer call of the flush, after every geometry submission.
C7_TextureUnboundAfterFlush ==
    (flush_calls >= 1 /\ ~panicked) =>
        /\ quad_gl.texture = None
        /\ quad_gl.calls # <<>>
        /\ quad_gl.calls[Len(quad_gl.calls)][1] = "texture"
        /\ quad_gl.calls[Len(quad_gl.calls)][2] = None

\* C7 witness: a completed flush whose last command bound a registered
\* texture.
C7_Witness ==
    /\ flush_calls = 1 /\ ~panicked /\ Len(quad_gl.draw_calls) = 2
    /\ quad_gl.draw_calls[2].texture = Some("texA")

\* C7 witness: a completed flush of an empty draw list.
C7_WitnessEmpty ==
    flush_calls = 1 /\ ~panicked /\ quad_gl.draw_calls = <<>>

C8_TestsForwardedPosition ==
    (IsSome(hit_test) /\ IsSome(Ctx.ui.mouse_position)) =>
        hit_test = Ctx.ui.mouse_position

\* C8 amended: mouse_over_ui tests the pointer position the host reports at
\* the call; it is the position last forwarded whenever the forwarder has
\* run since the host's current frame began.
C8_TestsHostPosition ==
    IsSome(hit_test) =>
        /\ hit_test = Some(host.mouse_position)
        /\ host_runs >= 1 => hit_test = Ctx.ui.mouse_position

\* C8 witness: a query made after a draw_window of the host's frame, in a
\* later UI frame than the first.
C8_Witness ==
    /\ IsSome(hit_test) /\ Flag /\ host_runs >= 1 /\ Ctx.ui.frame >= 1
    /\ hit_test = Some(<<200, 200>>)

\* The order of the allow-list key-downs, as C9 states it.
C9_KeyOrder ==
    << "Up", "Down", "Right", "Left", "Home", "End", "Delete", "Backspace",
       "Tab", "Z", "Y", "C", "X", "V", "A", "Escape", "Enter", "Control" >>

\* The place of an event in the order C9 states; -1 for any other event.
C9_Rank(e) ==
    CASE e[1] = "mouse_move" -> 1
      [] e[1] = "mouse_down" -> 2
      [] e[1] = "mouse_up" -> 3
      [] e[1] = "char_event" -> 4
      [] e[1] = "key_down" ->
            IF \E i \in 1..Len(C9_KeyOrder) : C9_KeyOrder[i] = e[2]
            THEN 4 + (CHOOSE i \in 1..Len(C9_KeyOrder) : C9_KeyOrder[i] = e[2])
            ELSE -1
      [] e[1] = "mouse_wheel" -> 5 + Len(C9_KeyOrder)
      [] OTHER -> -1

\* C9: a run of the forwarder sends mouse_move first and mouse_wheel last,
\* and between them the pointer-down, the pointer-up, the characters in
\* queue order, the allow-list key-downs in their fixed order and the
\* Control key-down, in this order; the flag is set with all of them sent.
C9_ForwardingOrder ==
    [][ (~Flag /\ Flag') =>
          /\ Len(Added) >= 2
          /\ Added[1] = <<"mouse_move", host.mouse_position>>
          /\ Added[Len(Added)][1] = "mouse_wheel"
          /\ \A i \in 1..Len(Added) : C9_Rank(Added[i]) > 0
          /\ \A i, j \in 1..Len(Added) :
                i < j => \/ C9_Rank(Added[i]) < C9_Rank(Added[j])
                         \/ Added[i][1] = "char_event" /\ Added[j][1] = "char_event"
          /\ LET typed == SelectSeq(Added, LAMBDA e : e[1] = "char_event")
             IN IF host.keys_down \cap ControlKeys = {}
                THEN /\ Len(typed) = Len(host.chars)
                     /\ \A i \in 1..Len(typed) : typed[i][2] = host.chars[i]
                ELSE typed = <<>> ]_vars

\* C9 witness: a run that sent every kind of event: both button events, two
\* characters, two allow-list keys and Control.
C9_Witness ==
    /\ Flag
    /\ Count(Input, "mouse_down") = 1 /\ Count(Input, "mouse_up") = 1
    /\ Count(Input, "char_event") = 2
    /\ Count(Input, "key_down") = 3
    /\ \E i \in 1..Len(Input) : Input[i][1] = "key_down" /\ Input[i][2] = "Control"

\* C10 as stated: a button that stays held yields one pointer-down in all,
\* however many frames it has been held.
C10_OnePointerDownPerHold ==
    hold_downs <= 1

\* C10 amended: a run of the forwarder sends a pointer-down iff the host
\* reports a press transition for its current frame and a pointer-up iff it
\* reports a release transition. The pointer-downs of a hold are those of the
\* forwarder's runs in the host frame that reports the press, one per run:
\* one when the forwarder runs once in it, and no step in or into a later
\* frame of the hold adds one.
C10_ButtonEdgePerRun ==
    [][ /\ (WindowStep /\ ~Flag) =>
              /\ Count(Added, "mouse_down") = (IF host.mouse_pressed THEN 1 ELSE 0)
              /\ Count(Added, "mouse_up") = (IF host.mouse_released THEN 1 ELSE 0)
        /\ host'.mouse_pressed => hold_downs' = host_runs'
        /\ (host'.mouse_down /\ ~host'.mouse_pressed) => hold_downs' = hold_downs ]_vars

\* C10 witness: after two flushes the button is still held from an
\* earlier frame, the forwarder has run in this frame too, and one
\* pointer-down was sent in all.
C10_Witness ==
    /\ Flag /\ host_runs = 1 /\ Ctx.ui.frame >= 2
    /\ host.mouse_down /\ ~host.mouse_pressed
    /\ hold_downs = 1

\* The character events among the events a step added, in the order sent.
TypedAdded == SelectSeq(Added, LAMBDA e : e[1] = "char_event")

\* C11: a run of the forwarder empties the host's character queue; with no
\* control key held it sends one char_event per queued character, in queue
\* order, and with a control key held it sends none (the queue is emptied
\* all the same, so the characters cannot reach a later frame).
C11_CharQueueDrained ==
    [][ (~Flag /\ Flag') =>
          /\ host'.chars = <<>>
          /\ IF "LeftControl" \notin host.keys_down /\ "RightControl" \notin host.keys_down
             THEN TypedAdded =
                    [ i \in 1..Len(host.chars) |->
                        <<"char_event", host.chars[i], FALSE, FALSE>> ]
             ELSE TypedAdded = <<>> ]_vars

\* C11 witness: the forwarder has run with a control key held: key-downs
\* were sent, no character was, and the queue is empty.
C11_Witness ==
    /\ Flag /\ host_runs = 1
    /\ host.keys_down \cap ControlKeys # {}
    /\ host.chars = <<>>
    /\ Count(Input, "char_event") = 0
    /\ Count(Input, "key_down") >= 1

\* The key_down events for key code k among the events evs.
KeyDowns(evs, k) == SelectSeq(evs, LAMBDA e : e[1] = "key_down" /\ e[2] = k)

\* The keys of the allow-list, as C12 lists them.
C12_AllowList ==
    { "Up", "Down", "Right", "Left", "Home", "End", "Delete", "Backspace", "Tab",
      "Z", "Y", "C", "X", "V", "A", "Escape", "Enter" }

\* C12: once the forwarder has run in a frame, every allow-list key that
\* is pressed this frame or held has exactly one key_down, tagged with
\* whether a shift key and whether a control key is held, every other
\* allow-list key has none, and no key_down carries any other key code than
\* an allow-list key or Control. A key that is held without a press this
\* frame, as in every frame of a hold after the first, has its key_down.
C12_KeyDownWhilePressedOrHeld ==
    (Flag /\ host_runs >= 1) =>
        /\ \A k \in C12_AllowList :
              IF k \in host.keys_pressed \/ k \in host.keys_down
              THEN KeyDowns(Input, k) =
                     << <<"key_down", k,
                          host.keys_down \cap {"LeftShift", "RightShift"} # {},
                          host.keys_down \cap {"LeftControl", "RightControl"} # {}>> >>
              ELSE KeyDowns(Input, k) = <<>>
        /\ \A i \in 1..Len(Input) :
              Input[i][1] = "key_down" => Input[i][2] \in C12_AllowList \cup {"Control"}

\* C12 witness: an allow-list key held from an earlier frame (no press this
\* frame) together with a shift key, while a key outside the allow-list is
\* struck: one key_down, for the held key, tagged shift.
C12_Witness ==
    /\ Flag /\ host_runs = 1
    /\ host.keys_down = {"Backspace", "RightShift"}
    /\ host.keys_pressed = {"Space"}
    /\ Count(Input, "key_down") = 1
    /\ KeyDowns(Input, "Backspace") = << <<"key_down", "Backspace", TRUE, FALSE>> >>

\* The key_down events among the events evs, in the order sent.
AllKeyDowns(evs) == SelectSeq(evs, LAMBDA e : e[1] = "key_down")

\* C13: once the forwarder has run in a frame there is exactly one
\* key_down for Control when the left or the right control key is held or
\* pressed this frame, and none otherwise, whichever allow-list keys are
\* down; every key_down of the frame carries the same shift and control
\* tags.
C13_ControlKeyDown ==
    (Flag /\ host_runs >= 1) =>
        /\ Len(KeyDowns(Input, "Control")) =
              (IF \E k \in {"LeftControl", "RightControl"} :
                      k \in host.keys_down \/ k \in host.keys_pressed
               THEN 1 ELSE 0)
        /\ \A i, j \in 1..Len(AllKeyDowns(Input)) :
              /\ AllKeyDowns(Input)[i][3] = AllKeyDowns(Input)[j][3]
              /\ AllKeyDowns(Input)[i][4] = AllKeyDowns(Input)[j][4]
        /\ \A i \in 1..Len(AllKeyDowns(Input)) :
              /\ AllKeyDowns(Input)[i][3] =
                    ("LeftShift" \in host.keys_down \/ "RightShift" \in host.keys_down)
              /\ AllKeyDowns(Input)[i][4] =
                    ("LeftControl" \in host.keys_down \/ "RightControl" \in host.keys_down)

\* C13 witness: the right control key is struck and let go within the frame
\* while an allow-list key is held: a key_down for the held key and one for
\* Control, both tagged as no control key being held.
C13_Witness ==
    /\ Flag /\ host_runs = 1
    /\ host.keys_down = {"V"}
    /\ host.keys_pressed = {"RightControl"}
    /\ AllKeyDowns(Input) = << <<"key_down", "V", FALSE, FALSE>>,
                               <<"key_down", "Control", FALSE, FALSE>> >>

\* The mouse_wheel events among the events evs.
WheelEvents(evs) == SelectSeq(evs, LAMBDA e : e[1] = "mouse_wheel")

\* C14: once the forwarder has run in a frame the UI has received one
\* mouse_wheel event, however many windows were declared and also for a
\* delta of (0, 0); its horizontal component is the host's and its vertical
\* component is the host's with the sign changed, so (0, 5) arrives as
\* (0, -5).
C14_WheelVerticalNegated ==
    (Flag /\ host_runs >= 1) =>
        /\ Len(WheelEvents(Input)) = 1
        /\ WheelEvents(Input)[1][2] = host.mouse_wheel[1]
        /\ WheelEvents(Input)[1][3] + host.mouse_wheel[2] = 0
        /\ host.mouse_wheel = <<0, 5>> =>
              WheelEvents(Input) = << <<"mouse_wheel", 0, -5>> >>
        /\ host.mouse_wheel = <<0, 0>> =>
              WheelEvents(Input) = << <<"mouse_wheel", 0, 0>> >>

\* C14 witness: two windows declared in a frame whose scroll delta is
\* (0, 5): one mouse_wheel event, (0, -5).
C14_Witness ==
    /\ Flag /\ host_runs = 1 /\ frame_calls = 2
    /\ host.mouse_wheel = <<0, 5>>
    /\ WheelEvents(Input) = << <<"mouse_wheel", 0, -5>> >>

\* The texture registry of the context.
Registry == Ctx.megaui_textures

\* C15: a set_megaui_texture(id, texture) call leaves the registry mapping id
\* to texture, with every other handle's entry as it was and no new handle
\* but id; no step of any operation removes an entry; and a step that is
\* not a registration with new arguments, which includes a repeat of the
\* latest registration, leaves the registry as it is. The call is made
\* before and after the frame's windows are declared.
C15_RegistryInsertOrReplace ==
    [][ /\ \A k \in DOMAIN Registry : k \in DOMAIN Registry'
        /\ registered' # registered =>
              LET id == registered'[1][1]
                  texture == registered'[1][2]
              IN /\ DOMAIN Registry' = DOMAIN Registry \cup {id}
                 /\ Registry'[id] = texture
                 /\ \A k \in DOMAIN Registry \ {id} : Registry'[k] = Registry[k]
        /\ registered' = registered => Registry' = Registry
        /\ registered' # <<>> => Registry'[registered'[1][1]] = registered'[1][2] ]_vars

\* C15 witness: in a frame with a window declared the latest registration is
\* (1, texB), while handle 2 holds texA.
C15_Witness ==
    /\ flush_calls = 0 /\ frame_calls >= 1
    /\ registered = Some(<<1, "texB">>)
    /\ DOMAIN Registry = {1, 2}
    /\ Registry[1] = "texB" /\ Registry[2] = "texA"

\* C16: the first public call, and no other, constructs the context, and it
\* acts on a context with no texture registered, an empty draw list and the
\* flag cleared; every later call finds the context in place and what
\* earlier calls left in it: the style set, the textures registered, the
\* flag, the stored draw list and the UI's frame clock. Until a public call
\* is made there is no context.
C16_SingletonContext ==
    [][ /\ constructions' = (IF UI_CONTEXT' = None THEN 0 ELSE 1)
        /\ (UI_CONTEXT = None /\ UI_CONTEXT' = None) =>
              /\ ~WindowStep /\ ~FlushStep /\ ~WidgetStep
              /\ open_windows' = 0
              /\ registered' = registered /\ hit_test' = None
        /\ (UI_CONTEXT = None /\ UI_CONTEXT' # None) =>
              /\ constructions = 0
              /\ DOMAIN Registry' =
                    (IF registered' # None THEN {registered'[1][1]} ELSE {})
              /\ Ctx'.ui_draw_list = <<>>
              /\ Flag' <=> WindowStep
              /\ Input' # <<>> <=> WindowStep
              /\ Ctx'.ui.frame = (IF FlushStep THEN 1 ELSE 0)
        /\ UI_CONTEXT # None =>
              /\ constructions = 1
              /\ UI_CONTEXT' # None
              /\ Unwrap(UI_CONTEXT).ui.style = "custom" => Ctx'.ui.style = "custom"
              /\ \A k \in DOMAIN Unwrap(UI_CONTEXT).megaui_textures :
                    /\ k \in DOMAIN Registry'
                    /\ Registry'[k] = Unwrap(UI_CONTEXT).megaui_textures[k]
                       \/ registered' # registered
              /\ Ctx'.ui.frame =
                    Unwrap(UI_CONTEXT).ui.frame
                       + (IF FlushStep /\ ~panicked' THEN 1 ELSE 0)
              /\ ~FlushStep =>
                    /\ Ctx'.ui_draw_list = Unwrap(UI_CONTEXT).ui_draw_list
                    /\ Unwrap(UI_CONTEXT).input_processed_this_frame => Flag'
                    /\ Len(Ctx'.ui.draw_commands) >=
                          Len(Unwrap(UI_CONTEXT).ui.draw_commands) ]_vars

\* C16 witness: after two flushes and calls of every operation, the context
\* constructed by the first call holds the style, the texture and the
\* commands of two windows.
C16_Witness ==
    /\ constructions = 1
    /\ flush_calls = 2 /\ Ctx.ui.frame = 2 /\ frame_calls = 2
    /\ Len(Ctx.ui.draw_commands) = 2
    /\ Ctx.ui.style = "custom"
    /\ DOMAIN Registry = {1}
    /\ Ctx.ui_draw_list # <<>>
    /\ IsSome(hit_test)

\* C17: the batches a draw_megaui submits are those of the draw commands
\* the UI holds for the frame being flushed (all of them when the flush
\* returns, the first of them when it panics), each carrying that frame's
\* number, and none is a command of the buffer the context kept from the
\* flush before; the buffer just consumed is what the context keeps when
\* the flush returns, and a flush that panics leaves it none.
C17_ConsumedOnce ==
    [][ FlushStep =>
          /\ Len(quad_gl'.draw_calls) <= Len(Emitted)
          /\ ~panicked' => Len(quad_gl'.draw_calls) = Len(Emitted)
          /\ \A i \in 1..Len(quad_gl'.draw_calls) :
                /\ quad_gl'.draw_calls[i].vertices = Emitted[i].vertices
                /\ quad_gl'.draw_calls[i].vertices[1] = Ctx.ui.frame
          /\ \A j \in 1..Len(Ctx.ui_draw_list) :
                /\ Ctx.ui_draw_list[j].vertices[1] < Ctx.ui.frame
                /\ \A i \in 1..Len(quad_gl'.draw_calls) :
                      quad_gl'.draw_calls[i].vertices # Ctx.ui_draw_list[j].vertices
          /\ Ctx'.ui_draw_list = (IF panicked' THEN <<>> ELSE Emitted) ]_vars

\* C17 witness: a flush that submitted the two commands of its own frame,
\* right after a flush that had submitted commands too; the context keeps
\* the consumed buffer.
C17_Witness ==
    /\ flush_calls >= 2 /\ ~panicked
    /\ Ctx.ui.frame >= 2 /\ quad_gl.previous_pass >= 1
    /\ Len(quad_gl.draw_calls) = 2
    /\ \A i \in 1..2 : quad_gl.draw_calls[i].vertices[1] = Ctx.ui.frame - 1
    /\ Len(Ctx.ui_draw_list) = 2

\* c is the i32 that the f32 of h half units is cast to: the integer next to
\* h / 2 in the direction of zero.
C18_CastOf(c, h) ==
    IF h >= 0 THEN 2 * c <= h /\ h < 2 * c + 2
    ELSE 2 * c - 2 < h /\ h <= 2 * c

\* The scissor that clip rectangle zone (None or Some(rect)) asks for.
C18_ClipFor(clip, zone) ==
    IF zone = <<>> THEN clip = <<>>
    ELSE /\ clip # <<>>
         /\ C18_CastOf(clip[1][1], zone[1].x) /\ C18_CastOf(clip[1][2], zone[1].y)
         /\ C18_CastOf(clip[1][3], zone[1].w) /\ C18_CastOf(clip[1][4], zone[1].h)

\* C18: every batch of a draw_megaui is submitted under its own command's
\* clip rectangle, and under no clip when the command has none, whatever
\* the command before it set; and after the opening font-atlas bind the
\* renderer calls come four to a command: texture, scissor, draw_mode
\* (Triangles), geometry.
C18_ClipPerCommand ==
    [][ FlushStep =>
          LET calls == quad_gl'.calls
              drawn == quad_gl'.draw_calls
          IN /\ Len(drawn) <= Len(Emitted)
             /\ Len(calls) = 1 + 4 * Len(drawn) + (IF panicked' THEN 0 ELSE 1)
             /\ \A i \in 1..Len(drawn) :
                   /\ C18_ClipFor(drawn[i].clip, Emitted[i].clipping_zone)
                   /\ drawn[i].draw_mode = "Triangles"
                   /\ calls[4 * i - 2][1] = "texture"
                   /\ calls[4 * i - 1][1] = "scissor"
                   /\ calls[4 * i - 1][2] = drawn[i].clip
                   /\ calls[4 * i] = <<"draw_mode", "Triangles">>
                   /\ calls[4 * i + 1] =
                         <<"geometry", Emitted[i].vertices, Emitted[i].indices>> ]_vars

\* C18 witness: a clipped command followed by one without a clip rectangle:
\* the first batch is drawn under the scissor (1, -1, 4, 2), the second
\* with clipping disabled.
C18_Witness ==
    /\ flush_calls = 1 /\ ~panicked /\ Len(quad_gl.draw_calls) = 2
    /\ quad_gl.draw_calls[1].clip = Some(<<1, -1, 4, 2>>)
    /\ quad_gl.draw_calls[2].clip = None
    /\ Len(quad_gl.calls) = 10

\* C19: a step that is not a draw_window call adds no event to the UI's
\* input, sends it no pointer position and does not set the flag; this
\* holds of the callback's widgets and of draw_window's return too. A step of
\* set_ui_style, set_megaui_texture, mouse_over_ui or mouse_captured leaves
\* the flag, the stored draw list and the declared commands as they are,
\* also when it is called from a window's callback; a draw_window that finds
\* the flag clear does forward.
C19_OnlyDrawWindowForwards ==
    [][ /\ ~WindowStep =>
              /\ Input' = Input \/ (FlushStep /\ Input' = <<>>)
              /\ Ctx'.ui.mouse_position = Ctx.ui.mouse_position
              /\ ~Flag => ~Flag'
              /\ hold_downs' <= hold_downs
              /\ host_runs' <= host_runs
        /\ (~WindowStep /\ ~FlushStep) =>
              /\ Flag' = Flag
              /\ Ctx'.ui_draw_list = Ctx.ui_draw_list
        /\ (~WindowStep /\ ~FlushStep /\ ~WidgetStep) =>
              Ctx'.ui.draw_commands = Ctx.ui.draw_commands
        /\ WidgetStep =>
              /\ open_windows >= 1
              /\ Ctx'.ui.style = Ctx.ui.style
              /\ Registry' = Registry /\ registered' = registered
              /\ hit_test' = hit_test
        /\ (WindowStep /\ ~Flag) =>
              /\ Flag'
              /\ Len(Input') >= Len(Input) + 2 ]_vars

\* C19 witness: after a flush, with the pointer at a position not yet sent
\* to the UI and a draw list kept from the flush, mouse_over_ui has been
\* called and the style and a texture are set, all from within a running
\* callback that has drawn a widget: no event has reached the UI and the
\* flag is clear.
C19_Witness ==
    /\ flush_calls >= 1 /\ Ctx.ui.frame >= 1 /\ frame_calls = 0
    /\ open_windows = 1 /\ Ctx.ui.draw_commands # <<>>
    /\ host_runs = 0 /\ Ctx.ui.mouse_position # Some(host.mouse_position)
    /\ IsSome(hit_test)
    /\ Ctx.ui.style = "custom" /\ DOMAIN Registry = {1}
    /\ Ctx.ui_draw_list # <<>>
    /\ ~Flag /\ Input = <<>>

\* C20: a draw_megaui with no draw_window call made since the previous one
\* finds no event forwarded and forwards none: the UI gets no pointer
\* position, no button, key or wheel event; it renders (the font-atlas bind
\* first, the unbind last) and moves the UI's frame clock on by one. Events
\* reach the UI only in a run of the forwarder, and what a run sends is the
\* host's state at that call: its pointer position, its scroll delta,
\* key-downs for keys down or pressed, and a pointer-down only for a press
\* reported then, so that a press reported only in a host frame in which the
\* forwarder did not run has no pointer-down in any frame.
C20_FrameWithoutWindow ==
    [][ /\ (FlushStep /\ frame_calls = 0) =>
              /\ Input = <<>> /\ Input' = <<>>
              /\ ~Flag /\ ~Flag'
              /\ Ctx'.ui.mouse_position = Ctx.ui.mouse_position
              /\ hold_downs' = hold_downs /\ host_runs' = host_runs
              /\ Ctx'.ui.frame = Ctx.ui.frame + 1
              /\ quad_gl'.calls[1] = <<"texture", Some(FontAtlas)>>
              /\ quad_gl'.calls[Len(quad_gl'.calls)] = <<"texture", None>>
              /\ Len(quad_gl'.draw_calls) = Len(Emitted)
        /\ (host.mouse_pressed /\ host_runs = 0) => hold_downs = 0
        /\ (hold_downs = 0 /\ ~host'.mouse_pressed) => hold_downs' = 0
        /\ Input' # Input =>
              \/ FlushStep /\ Input' = <<>>
              \/ /\ WindowStep /\ ~Flag
                 /\ Input' = Input \o Added
                 /\ Ctx'.ui.mouse_position = Some(host.mouse_position)
                 /\ \A i \in 1..Len(Added) :
                       /\ Added[i][1] = "mouse_move" => Added[i][2] = host.mouse_position
                       /\ Added[i][1] = "mouse_down" => host.mouse_pressed
                       /\ Added[i][1] = "mouse_up" => host.mouse_released
                       /\ Added[i][1] = "mouse_wheel" =>
                             Added[i] = <<"mouse_wheel", host.mouse_wheel[1],
                                          0 - host.mouse_wheel[2]>>
                       /\ (Added[i][1] = "key_down" /\ Added[i][2] # "Control") =>
                             Added[i][2] \in host.keys_down \cup host.keys_pressed
                 /\ Count(Added, "mouse_move") = 1
                 /\ Count(Added, "mouse_wheel") = 1 ]_vars

\* C20 witness: the forwarder has run in a host frame in which the button is
\* still held from a press reported in an earlier host frame, in which a
\* draw_megaui was called and no draw_window: no pointer-down was sent for
\* this hold, then or now.
C20_Witness ==
    /\ Flag /\ host_runs = 1 /\ Ctx.ui.frame >= 2
    /\ host.mouse_down /\ ~host.mouse_pressed
    /\ hold_downs = 0
    /\ Count(Input, "mouse_down") = 0
    /\ Count(Input, "mouse_move") = 1

====
